---------------------------- MODULE Spec2Model ----------------------------
(***************************************************************************)
(* PUP container decoder (src/src/orbital/software/pup.cpp).               *)
(*                                                                         *)
(* The module models the parser object (header, header extension, the two  *)
(* parallel segment tables), the seekable stream it reads from, segment    *)
(* lookup, the block decryptor with its custom tail handling, and the      *)
(* block-wise reconstruction of a segment.                                 *)
(*                                                                         *)
(* Four specifications share the definitions:                              *)
(*   SpecFind     find / find_info applied to arbitrary small tables       *)
(*   SpecDecrypt  pup_decrypt applied to buffers of every small length     *)
(*   Spec         construction followed by sequential get calls            *)
(*   SpecConc     two get calls on one parser, interleaved at stream ops   *)
(***************************************************************************)
EXTENDS Integers, Sequences, FiniteSets, TLC

VARIABLES
    file,        \* the archive: header, header extension, metas (as decrypted)
    data,        \* the stream's bytes (payload region), offset o is data[o + 1]
    pos,         \* the stream's read position (shared by every reader)
    state,       \* "new", "opened", "failed", "crashed"
    error,       \* the error construction failed with, or "none"
    header,      \* PupParser::header
    headerEx,    \* PupParser::headerEx
    segEntries,  \* PupParser::segEntries
    segMetas,    \* PupParser::segMetas
    built,       \* the tables as they were when construction finished
    ioLog,       \* stream / crypto operations performed by the constructor
    calls,       \* completed get calls, oldest first
    threads,     \* per-thread position inside get_blocked (SpecConc)
    serial,      \* SpecConc: TRUE when the caller serializes the get calls
    findIn,      \* SpecFind: the id looked up and the role
    findOut,     \* SpecFind: the outcome of the lookup
    decIn,       \* SpecDecrypt: the buffer handed to pup_decrypt
    decOut       \* SpecDecrypt: the outcome of pup_decrypt

vars == <<file, data, pos, state, error, header, headerEx, segEntries, segMetas,
          built, ioLog, calls, threads, serial, findIn, findOut, decIn, decOut>>

parserVars == <<file, data, pos, state, error, header, headerEx, segEntries,
                segMetas, built, ioLog, calls, threads, serial>>

findVars == <<findIn, findOut>>

decVars == <<decIn, decOut>>

-----------------------------------------------------------------------------
(* Bytes and buffers *)

Min(a, b) == IF a < b THEN a ELSE b

RECURSIVE Xor(_, _)
\* a ^ b on bytes (the ^= of the tail loop)
Xor(a, b) ==
    IF a = 0 THEN b
    ELSE IF b = 0 THEN a
    ELSE (((a % 2) + (b % 2)) % 2) + 2 * Xor(a \div 2, b \div 2)

XorBlock(x, y) == [i \in 1..Len(x) |-> Xor(x[i], y[i])]

\* buffer.size() & ~0xF
AlignDown(n) == n - (n % 16)

\* buffer.size() & 0xF
Overflow(n) == n % 16

Zeros(n) == [i \in 1..n |-> 0]

\* bytes [from, from + n) of a buffer, offsets counted from 0
Slice(buf, from, n) == [i \in 1..n |-> buf[from + i]]

-----------------------------------------------------------------------------
(* The AES-128 primitive of the crypto library, abstracted to a keyed      *)
(* permutation of 16-byte blocks; CBC chaining on top of it is modelled    *)
(* as the library performs it.                                             *)

AesEncBlock(key, blk) == [i \in 1..16 |-> (blk[i] + key[i] + i) % 256]

AesDecBlock(key, blk) == [i \in 1..16 |-> (blk[i] + 512 - key[i] - i) % 256]

\* AES-128/CBC/NoPadding decryption of a buffer whose length is a multiple of 16
CbcDecrypt(key, iv, buf) ==
    LET prevc(b) == IF b = 0 THEN iv ELSE Slice(buf, 16 * (b - 1), 16)
        plain(b) == XorBlock(AesDecBlock(key, Slice(buf, 16 * b, 16)), prevc(b))
    IN  [i \in 1..Len(buf) |-> plain((i - 1) \div 16)[((i - 1) % 16) + 1]]

\* AES-128/CBC encryption of a buffer whose length is a multiple of 16
RECURSIVE CbcEncrypt(_, _, _)
CbcEncrypt(key, iv, buf) ==
    IF Len(buf) = 0 THEN <<>>
    ELSE LET c == AesEncBlock(key, XorBlock(Slice(buf, 0, 16), iv))
         IN  c \o CbcEncrypt(key, c, Slice(buf, 16, Len(buf) - 16))

\* the encryption pipe of the tail step: no IV is given, the cipher starts
\* from the all-zero IV; the first 16 bytes of its output are read back
TailKeystream(key, prev_block) == Slice(CbcEncrypt(key, Zeros(16), prev_block), 0, 16)

-----------------------------------------------------------------------------
(* pup_decrypt *)

\* pup_decrypt(buffer, meta).  prev_block is written only under
\* (overflow && size_aligned >= 16); otherwise the tail step reads it
\* uninitialised, and `garbage` is what the 16 stack bytes happen to hold.
\* The result records the buffer after the call, whether prev_block had been
\* captured from the buffer, and the block that was re-encrypted.
pup_decrypt(buffer, meta, garbage) ==
    LET size_aligned == AlignDown(Len(buffer))
        overflow     == Overflow(Len(buffer))
        captured     == overflow # 0 /\ size_aligned >= 16
        prev_block   == IF captured THEN Slice(buffer, size_aligned - 16, 16)
                        ELSE garbage
        prefix       == CbcDecrypt(meta.data_key, meta.data_iv,
                                   Slice(buffer, 0, size_aligned))
        next_block   == TailKeystream(meta.data_key, prev_block)
        tail         == [i \in 1..overflow |->
                            Xor(buffer[size_aligned + i], next_block[i])]
    IN  IF overflow # 0
        THEN [buffer |-> prefix \o tail, captured |-> captured,
              tailStep |-> TRUE, encInput |-> prev_block]
        ELSE [buffer |-> prefix, captured |-> FALSE,
              tailStep |-> FALSE, encInput |-> <<>>]

-----------------------------------------------------------------------------
(* Segment table: PupSegmentEntry / PupSegmentMeta, with the accessors     *)
(* (id(), is_info(), has_blocks(), ...) turned into record fields.         *)

NotFound == "NotFoundError"

\* an index returned, or the error thrown instead
Found(i) == [err |-> "none", index |-> i]

Thrown(e) == [err |-> e, index |-> -1]

Key0 == [i \in 1..16 |-> i]

Iv0 == [i \in 1..16 |-> 2 * i]

Meta0 == [data_key |-> Key0, data_iv |-> Iv0]

Entry(id, info, blocks, enc, comp, sgn, dig, ext, off, fsize, bsize, bcount) ==
    [id |-> id, is_info |-> info, has_blocks |-> blocks, is_encrypted |-> enc,
     is_compressed |-> comp, is_signed |-> sgn, has_digests |-> dig,
     has_extents |-> ext, offset |-> off, file_size |-> fsize,
     block_size |-> bsize, block_count |-> bcount]

-----------------------------------------------------------------------------
(* PupParser::find, find(id), find_info(id) *)

\* find(pred): for (i = 0; i < headerEx.segment_count; i++)
\*                 if (pred(segEntries[i], segMetas[i])) return i;
\*             throw std::out_of_range
\* hit[i + 1] is pred(segEntries[i], segMetas[i])
Find(hit, count) ==
    LET scan[k \in 0..count] ==
            LET i == count - k    \* k entries are left to look at
            IN  IF k = 0 THEN Thrown(NotFound)
                ELSE IF hit[i + 1] THEN Found(i)
                ELSE scan[k - 1]
    IN  scan[count]

\* a lookup that forgets the role of the entry
find_any_role(id, count, entries, metas) ==
    Find([i \in 1..count |-> entries[i].id = id], count)

\* find(id): entry.id() == id && !entry.is_info()
find(id, count, entries, metas) ==
    Find([i \in 1..count |-> entries[i].id = id /\ ~entries[i].is_info], count)

\* find_info(id): entry.id() == id && entry.is_info()
find_info(id, count, entries, metas) ==
    Find([i \in 1..count |-> entries[i].id = id /\ entries[i].is_info], count)

-----------------------------------------------------------------------------
(* SpecFind: the lookups on every table of at most MaxSegs entries with    *)
(* ids up to MaxId (duplicated (id, role) pairs included).                 *)

MaxSegs == 3

MaxId == 1

FindEntry(id, info) ==
    Entry(id, info, FALSE, FALSE, FALSE, FALSE, FALSE, FALSE, 0, 0, 0, 0)

FindEntries == {FindEntry(id, info) : id \in 0..MaxId, info \in BOOLEAN}

FindTables == UNION {[1..n -> FindEntries] : n \in 0..MaxSegs}

Idle == "idle"

\* the variables a specification does not use
ParserIdle ==
    /\ file = Idle /\ data = <<>> /\ pos = 0 /\ state = Idle /\ error = "none"
    /\ header = Idle /\ built = Idle /\ ioLog = <<>> /\ calls = <<>>
    /\ threads = <<>> /\ serial = TRUE

NoLookup == [done |-> FALSE, id |-> 0, info |-> FALSE]

FindIdle == findIn = NoLookup /\ findOut = Thrown("none")

DecIdle == decIn = Idle /\ decOut = Idle

InitFind ==
    /\ file = Idle /\ data = <<>> /\ pos = 0 /\ state = "opened"
    /\ error = "none" /\ header = Idle /\ built = Idle /\ ioLog = <<>>
    /\ calls = <<>> /\ threads = <<>> /\ serial = TRUE
    /\ segEntries \in FindTables
    /\ segMetas = [i \in 1..Len(segEntries) |-> Meta0]
    /\ headerEx = [segment_count |-> Len(segEntries)]
    /\ FindIdle
    /\ DecIdle

LookupContent ==
    \E id \in 0..(MaxId + 1) :
        /\ findIn' = [done |-> TRUE, id |-> id, info |-> FALSE]
        /\ findOut' = find(id, headerEx.segment_count, segEntries, segMetas)
        /\ UNCHANGED <<parserVars, headerEx, decVars>>

LookupInfo ==
    \E id \in 0..(MaxId + 1) :
        /\ findIn' = [done |-> TRUE, id |-> id, info |-> TRUE]
        /\ findOut' = find_info(id, headerEx.segment_count, segEntries, segMetas)
        /\ UNCHANGED <<parserVars, headerEx, decVars>>

NextFind == LookupContent \/ LookupInfo

SpecFind == InitFind /\ [][NextFind]_vars

\* the indices of the table whose entry carries the id in the role asked for
Matching(id, info) ==
    {i \in 0..(headerEx.segment_count - 1) :
        segEntries[i + 1].id = id /\ segEntries[i + 1].is_info = info}

\* C1: find(id) returns the lowest index whose entry has that id and is not
\* info-flagged, and fails with NotFoundError when there is none (also when
\* only info-flagged entries carry the id); find_info(id) returns the lowest
\* index whose entry has that id and is info-flagged.
C1_FindLowestMatch ==
    findIn.done =>
        LET m == Matching(findIn.id, findIn.info)
        IN  /\ (m = {}) => findOut = Thrown(NotFound)
            /\ (m # {}) => /\ findOut.err = "none"
                           /\ findOut.index \in m
                           /\ \A j \in m : findOut.index <= j

\* a lookup of a content id that only info entries carry has failed, and a
\* lookup on a table with a duplicated pair has answered
C1_Witness ==
    /\ findIn.done
    /\ \/ /\ ~findIn.info
          /\ Matching(findIn.id, TRUE) # {}
          /\ Matching(findIn.id, FALSE) = {}
          /\ findOut = Thrown(NotFound)
       \/ /\ Cardinality(Matching(findIn.id, findIn.info)) >= 2
          /\ findOut.index \in Matching(findIn.id, findIn.info)

-----------------------------------------------------------------------------
(* SpecDecrypt: pup_decrypt on buffers of every length up to MaxBufLen.    *)

MaxBufLen == 34

\* what the 16 bytes of an unwritten stack array may hold
StackGarbage ==
    {Zeros(16), [i \in 1..16 |-> IF i = 1 THEN 4 ELSE 0],
     [i \in 1..16 |-> IF i = 5 THEN 12 ELSE 0]}

PatternBuf(len, seed) == [i \in 1..len |-> (seed + 7 * i) % 256]

NoDecrypt ==
    [done |-> FALSE,
     r |-> [buffer |-> <<>>, captured |-> FALSE, tailStep |-> FALSE,
            encInput |-> <<>>]]

InitDecrypt ==
    /\ ParserIdle
    /\ headerEx = [segment_count |-> 0] /\ segEntries = <<>> /\ segMetas = <<>>
    /\ FindIdle
    /\ \E len \in 0..MaxBufLen, seed \in {0, 101} :
           decIn = [buffer |-> PatternBuf(len, seed), meta |-> Meta0]
    /\ decOut = NoDecrypt

RunDecrypt ==
    /\ ~decOut.done
    /\ \E garbage \in StackGarbage :
           decOut' = [done |-> TRUE,
                      r |-> pup_decrypt(decIn.buffer, decIn.meta, garbage)]
    /\ UNCHANGED <<parserVars, headerEx, segEntries, segMetas, findVars, decIn>>

NextDecrypt == RunDecrypt

SpecDecrypt == InitDecrypt /\ [][NextDecrypt]_vars

\* C10: whenever the buffer has a non-zero tail, the block re-encrypted for
\* the tail keystream is the original ciphertext of the last aligned 16-byte
\* block of the buffer, captured before the prefix is decrypted (for every
\* length, 1..15 included); a buffer whose length is a multiple of 16 gets
\* the aligned CBC decryption only.
C10_TailKeystreamFromCapturedBlock ==
    decOut.done =>
        LET n == Len(decIn.buffer)
        IN  /\ (Overflow(n) # 0) =>
                   /\ decOut.r.tailStep
                   /\ decOut.r.captured
                   /\ decOut.r.encInput = Slice(decIn.buffer, AlignDown(n) - 16, 16)
            /\ (Overflow(n) = 0) =>
                   /\ ~decOut.r.tailStep
                   /\ decOut.r.buffer =
                          CbcDecrypt(decIn.meta.data_key, decIn.meta.data_iv,
                                     decIn.buffer)

-----------------------------------------------------------------------------
(* Record layouts of pup.h                                                 *)

PUP_MAGIC == 490542415      \* 0x1D3D154F

LITTLE == 1                 \* PupEndian::LITTLE

JIG == 1                    \* PupFlags::JIG

SizeofPupHeader == 32

SizeofPupDigest == 32

SizeofPupExtent == 8        \* two 32-bit little-endian fields: offset, size

FormatError == "FormatError"

UnsupportedFeatureError == "UnsupportedFeatureError"

NotImplementedError == "NotImplementedError"

DecompressError == "DecompressError"

LE32(v) == <<v % 256, (v \div 256) % 256, (v \div 65536) % 256, (v \div 16777216) % 256>>

\* a 32-bit little-endian field at offset o of a buffer; bytes past the end
\* of the buffer read as 0
ByteAt(buf, o) == IF o < Len(buf) THEN buf[o + 1] ELSE 0

ReadLE32(buf, o) ==
    ByteAt(buf, o) + 256 * ByteAt(buf, o + 1) + 65536 * ByteAt(buf, o + 2)
        + 16777216 * ByteAt(buf, o + 3)

\* info_stream.read_t<PupExtent>() at offset o
ReadExtent(buf, o) == [offset |-> ReadLE32(buf, o), size |-> ReadLE32(buf, o + 4)]

-----------------------------------------------------------------------------
(* The stream *)

\* a seek that leaves the position where it is
SeekIgnored(p, offset) == p

\* s.seek(offset, StreamSeek::Set)
SeekSet(p, offset) == offset

\* s.read(n, dst): the n bytes at the current position
StreamRead(p, n) == [i \in 1..n |-> ByteAt(data, p + i - 1)]

-----------------------------------------------------------------------------
(* The zlib primitive, abstracted: a stream is the marker byte 0x78, a     *)
(* length byte n and n literal bytes.  uncompress(dest, &destLen, source,  *)
(* sourceLen) gives Z_OK and the n bytes, Z_DATA_ERROR on a bad stream,    *)
(* Z_BUF_ERROR when the input is truncated or the output does not fit.     *)
(* Source bytes past the end of the buffer handed in (a sourceLen larger   *)
(* than the buffer) read as 0.                                              *)

Z_OK == "Z_OK"

Z_BUF_ERROR == "Z_BUF_ERROR"

Z_DATA_ERROR == "Z_DATA_ERROR"

Deflated(plain) == <<120, Len(plain)>> \o plain

uncompress(destLen, source, sourceLen) ==
    LET n == ByteAt(source, 1)
    IN  IF sourceLen < 2 \/ ByteAt(source, 0) # 120
        THEN [rc |-> Z_DATA_ERROR, out |-> <<>>]
        ELSE IF sourceLen < 2 + n \/ n > destLen
        THEN [rc |-> Z_BUF_ERROR, out |-> <<>>]
        ELSE [rc |-> Z_OK, out |-> [i \in 1..n |-> ByteAt(source, 1 + i)]]

\* ps4Crypto().decrypt(block, size, Key(AES_128_CBC, key, iv)): CBC over
\* the whole 16-byte blocks of the buffer
CryptoDecrypt(buf, meta) ==
    CbcDecrypt(meta.data_key, meta.data_iv, Slice(buf, 0, AlignDown(Len(buf))))
        \o Slice(buf, AlignDown(Len(buf)), Overflow(Len(buf)))

-----------------------------------------------------------------------------
(* Archives.  An archive holds up to two block-split segments (slot 0 and  *)
(* slot 1), each with its info segment, a content segment without blocks   *)
(* (id 7) and an info segment without content (id 9).  `rows` gives the    *)
(* order of the table: <<"c", s>> the content entry of slot s, <<"i", s>>  *)
(* its info entry, <<"n", 0>> and <<"o", 0>> the two extra entries.        *)

Pad(buf, n) == buf \o Zeros(n - Len(buf))

InfoBase(s) == 64 + 120 * s

ContBase(s) == 304 + 64 * s

MetaOf(i) ==
    [data_key |-> [j \in 1..16 |-> (16 * i + j) % 256],
     data_iv  |-> [j \in 1..16 |-> (3 * i + 2 * j) % 256]]

Ext(o, n) == [offset |-> o, size |-> n]

\* cur_size of block k (1-based) of a segment
CurSize(seg, k) == Min(seg.block_size, seg.file_size - seg.block_size * (k - 1))

InfoSize(seg) ==
    (IF seg.digests THEN SizeofPupDigest * Len(seg.extents) ELSE 0)
        + (IF seg.hasExtents THEN SizeofPupExtent * Len(seg.extents) ELSE 0)

RECURSIVE Concat(_)
Concat(seqs) == IF seqs = <<>> THEN <<>> ELSE Head(seqs) \o Concat(Tail(seqs))

InfoPlain(seg) ==
    (IF seg.digests
     THEN [j \in 1..(SizeofPupDigest * Len(seg.extents)) |->
              IF j % 4 = 1 THEN 1 + (j % 13) ELSE 0]
     ELSE <<>>)
    \o (IF seg.hasExtents
        THEN Concat([k \in 1..Len(seg.extents) |->
                        LE32(seg.extents[k].offset) \o LE32(seg.extents[k].size)])
        ELSE <<>>)

\* the inverse of pup_decrypt (a tail shorter than one block is keyed by the
\* all-zero block)
PupEncrypt(plain, meta) ==
    LET aligned == AlignDown(Len(plain))
        prefix  == CbcEncrypt(meta.data_key, meta.data_iv, Slice(plain, 0, aligned))
        last    == IF aligned >= 16 THEN Slice(prefix, aligned - 16, 16) ELSE Zeros(16)
        ks      == TailKeystream(meta.data_key, last)
    IN  prefix \o [i \in 1..Overflow(Len(plain)) |-> Xor(plain[aligned + i], ks[i])]

InfoStored(seg, meta) ==
    IF seg.infoEnc THEN PupEncrypt(InfoPlain(seg), meta) ELSE InfoPlain(seg)

PlainBlock(seg, k) == [j \in 1..CurSize(seg, k) |-> (40 * k + 5 * j) % 256]

StoredBlock(seg, k, meta) ==
    LET plain   == PlainBlock(seg, k)
        last    == k = Len(seg.extents)
        payload == CASE seg.comp = "none"  -> plain
                     [] seg.comp = "good"  -> Deflated(plain)
                     [] seg.comp = "bad"   -> IF last THEN <<0, Len(plain)>> \o plain
                                              ELSE Deflated(plain)
                     [] seg.comp = "short" -> IF last
                                              THEN Deflated(Slice(plain, 0, Len(plain) - 1))
                                              ELSE Deflated(plain)
        padded  == Pad(payload, seg.extents[k].size)
    IN  IF seg.enc THEN CbcEncrypt(meta.data_key, meta.data_iv, padded) ELSE padded

\* the bytes of a content slot: a position-dependent pattern for a raw
\* segment (every aligned 32-bit word distinct and small, so that a word
\* taken for an extent field stays inside the archive), the stored blocks
\* one after the other otherwise
ContStored(seg, base, meta) ==
    IF seg.comp = "none" /\ ~seg.enc
    THEN [o \in 1..64 |-> IF (o - 1) % 4 = 0 THEN 1 + (((base + o - 1) \div 4) % 61) ELSE 0]
    ELSE Pad(Concat([k \in 1..Len(seg.extents) |-> StoredBlock(seg, k, meta)]), 64)

RowIndex(rows, row) == (CHOOSE i \in 1..Len(rows) : rows[i] = row) - 1

HasRow(rows, row) == \E i \in 1..Len(rows) : rows[i] = row

RowEntry(segs, row) ==
    LET seg == segs[row[2] + 1]
    IN  CASE row[1] = "c" ->
                 Entry(seg.id, FALSE, TRUE, seg.enc, seg.comp # "none", seg.sgn,
                       FALSE, FALSE, ContBase(row[2]), seg.file_size,
                       seg.block_size, Len(seg.extents))
          [] row[1] = "i" ->
                 Entry(seg.id, TRUE, FALSE, seg.infoEnc, seg.infoComp, seg.sgn,
                       seg.digests, seg.hasExtents, InfoBase(row[2]),
                       InfoSize(seg), 0, 0)
          [] row[1] = "n" ->
                 Entry(7, FALSE, FALSE, FALSE, FALSE, FALSE, FALSE, FALSE, 432, 8, 0, 0)
          [] row[1] = "o" ->
                 Entry(9, TRUE, FALSE, FALSE, FALSE, FALSE, FALSE, TRUE, 440, 8, 0, 0)

SlotBytes(segs, rows, s, info) ==
    IF ~HasRow(rows, <<(IF info THEN "i" ELSE "c"), s>>)
    THEN Zeros(IF info THEN 120 ELSE 64)
    ELSE IF info
    THEN Pad(InfoStored(segs[s + 1], MetaOf(RowIndex(rows, <<"i", s>>))), 120)
    ELSE ContStored(segs[s + 1], ContBase(s), MetaOf(RowIndex(rows, <<"c", s>>)))

ArchiveBytes(segs, rows) ==
    Zeros(64) \o SlotBytes(segs, rows, 0, TRUE) \o SlotBytes(segs, rows, 1, TRUE)
        \o SlotBytes(segs, rows, 0, FALSE) \o SlotBytes(segs, rows, 1, FALSE)
        \o [o \in 1..16 |-> 16 + o]

Header(magic, version, mode, endian, attr, flags) ==
    [magic |-> magic, version |-> version, mode |-> mode, endian |-> endian,
     attr |-> attr, flags |-> flags, hdr_size |-> 48, meta_size |-> 16]

GoodHeader == Header(PUP_MAGIC, 0, 1, LITTLE, 18, 0)

Archive(hdr, segs, rows) ==
    [header |-> hdr,
     ext    |-> [segment_count |-> Len(rows),
                 entries |-> [i \in 1..Len(rows) |-> RowEntry(segs, rows[i])]],
     metas  |-> [i \in 1..Len(rows) |-> MetaOf(i - 1)],
     segs   |-> segs,
     rows   |-> rows]

Seg(id, extents, bs, fs, enc, comp, infoEnc, infoComp, digests, hasExtents, sgn) ==
    [id |-> id, extents |-> extents, block_size |-> bs, file_size |-> fs,
     enc |-> enc, comp |-> comp, infoEnc |-> infoEnc, infoComp |-> infoComp,
     digests |-> digests, hasExtents |-> hasExtents, sgn |-> sgn]

\* the block-split segments tried in slot 0
SegVariants(id) ==
    \* three blocks, the last extent larger than what is left of the file
    {Seg(id, <<Ext(0, 16), Ext(16, 16), Ext(16, 20)>>, 16, 36, FALSE, "none",
         e, FALSE, d, TRUE, FALSE) : e \in BOOLEAN, d \in BOOLEAN}
    \* every extent exactly as large as its block
    \cup {Seg(id, <<Ext(0, 16), Ext(16, 4)>>, 16, 20, FALSE, "none",
              e, FALSE, FALSE, TRUE, s) : e \in BOOLEAN, s \in BOOLEAN}
    \* one block, an info segment of 8 bytes
    \cup {Seg(id, <<Ext(0, 8)>>, 16, 8, FALSE, "none",
              e, FALSE, FALSE, TRUE, FALSE) : e \in BOOLEAN}
    \* an extent smaller than its block
    \cup {Seg(id, <<Ext(0, 8)>>, 16, 16, FALSE, "none",
              FALSE, FALSE, FALSE, TRUE, FALSE)}
    \* compressed blocks: sound, corrupt, inflating to too few bytes
    \cup {Seg(id, <<Ext(0, 32), Ext(32, 32)>>, 16, 32, FALSE, c,
              FALSE, FALSE, FALSE, TRUE, FALSE) : c \in {"good", "bad", "short"}}
    \* encrypted blocks
    \cup {Seg(id, <<Ext(0, 16), Ext(16, 16)>>, 16, 32, TRUE, "none",
              FALSE, FALSE, TRUE, TRUE, FALSE)}
    \* a compressed info segment; an info segment without extents
    \cup {Seg(id, <<Ext(0, 16), Ext(16, 4)>>, 16, 20, FALSE, "none",
              FALSE, TRUE, FALSE, TRUE, FALSE),
          Seg(id, <<Ext(0, 16)>>, 16, 16, FALSE, "none",
              FALSE, FALSE, TRUE, FALSE, FALSE)}

\* the segment of slot 1
SegB(id) ==
    Seg(id, <<Ext(0, 8), Ext(8, 8)>>, 8, 16, FALSE, "none",
        FALSE, FALSE, FALSE, TRUE, FALSE)

RowsFull == << <<"c", 0>>, <<"c", 1>>, <<"i", 0>>, <<"i", 1>>, <<"n", 0>>, <<"o", 0>> >>

RowsShifted == << <<"o", 0>>, <<"c", 0>>, <<"i", 0>>, <<"n", 0>> >>

\* every content id equals its table index / the two ids are swapped /
\* one segment whose id is 0 and whose index is 1
Bodies ==
    {[segs |-> <<a, SegB(1)>>, rows |-> RowsFull] : a \in SegVariants(0)}
    \cup {[segs |-> <<a, SegB(0)>>, rows |-> RowsFull] : a \in SegVariants(1)}
    \cup {[segs |-> <<a>>, rows |-> RowsShifted] : a \in SegVariants(0)}

Headers ==
    {Header(m, v, mo, e, a, f) :
        m \in {PUP_MAGIC, 0}, v \in {0, 1}, mo \in {1, 0}, e \in {LITTLE, 2},
        a \in {18, 0}, f \in 0..3}

PlainBody ==
    [segs |-> <<Seg(0, <<Ext(0, 16), Ext(16, 4)>>, 16, 20, FALSE, "none",
                    FALSE, FALSE, FALSE, TRUE, FALSE), SegB(1)>>,
     rows |-> RowsFull]

Archives ==
    {Archive(h, PlainBody.segs, PlainBody.rows) : h \in Headers}
    \cup {Archive(h, b.segs, b.rows) : h \in {GoodHeader}, b \in Bodies}

-----------------------------------------------------------------------------
(* PupParser::PupParser *)

ZeroHeader == Header(0, 0, 0, 0, 0, 0)

\* the asserts on the header, in the order of the constructor; "none" when
\* all of them pass
HeaderCheck(h) ==
    IF h.magic # PUP_MAGIC THEN FormatError
    ELSE IF h.version # 0 THEN FormatError
    ELSE IF h.mode # 1 THEN FormatError
    ELSE IF h.endian # LITTLE THEN FormatError
    ELSE IF h.attr # 18 THEN FormatError
    ELSE IF (h.flags % (2 * JIG)) \div JIG # 0 THEN UnsupportedFeatureError
    ELSE "none"

\* a constructor that reads and caches both blocks before it looks at the header
PupParserChecksLate(f, verify) ==
    [state |-> IF HeaderCheck(f.header) # "none" \/ verify THEN "failed" ELSE "opened",
     error |-> IF HeaderCheck(f.header) # "none" THEN HeaderCheck(f.header)
               ELSE IF verify THEN NotImplementedError ELSE "none",
     header |-> f.header,
     headerEx |-> [segment_count |-> f.ext.segment_count],
     segEntries |-> [i \in 1..f.ext.segment_count |-> f.ext.entries[i]],
     segMetas |-> [i \in 1..f.ext.segment_count |-> f.metas[i]],
     pos |-> f.header.hdr_size + f.header.meta_size,
     ioLog |-> <<"seek", "read_header", "read_hdr", "decrypt_hdr", "read_meta",
                 "decrypt_meta">>]

\* PupParser(s, verify): the parser's members, the stream position and the
\* stream / crypto operations performed when the constructor returns or throws
PupParser(f, verify) ==
    IF HeaderCheck(f.header) # "none"
    THEN [state |-> "failed", error |-> HeaderCheck(f.header),
          header |-> f.header, headerEx |-> [segment_count |-> 0],
          segEntries |-> <<>>, segMetas |-> <<>>,
          pos |-> SizeofPupHeader, ioLog |-> <<"seek", "read_header">>]
    ELSE [state |-> IF verify THEN "failed" ELSE "opened",
          error |-> IF verify THEN NotImplementedError ELSE "none",
          header |-> f.header,
          headerEx |-> [segment_count |-> f.ext.segment_count],
          segEntries |-> [i \in 1..f.ext.segment_count |-> f.ext.entries[i]],
          segMetas |-> [i \in 1..f.ext.segment_count |-> f.metas[i]],
          pos |-> f.header.hdr_size + f.header.meta_size,
          ioLog |-> <<"seek", "read_header", "read_hdr", "decrypt_hdr",
                      "read_meta", "decrypt_meta">>]

-----------------------------------------------------------------------------
(* PupParser::get and get_blocked.  A call is a frame that advances by     *)
(* one stream operation per step: seek to the info segment, read it (and   *)
(* parse it), then per extent seek to the block and read it (and append    *)
(* it to the output).  A sequential call runs its frame to the end.        *)
(*                                                                         *)
(* Two inputs of a call come from outside the program text: `garbage`,     *)
(* what an uninitialised prev_block holds inside pup_decrypt, and `heap`,  *)
(* what becomes of bytes memcpy writes past the end of the output buffer:  *)
(* "slack" (they land in unused allocator space), "clobber" (they          *)
(* overwrite the neighbouring allocation, here the storage of segEntries)  *)
(* or "abort" (the process dies).                                          *)

HeapOutcomes == {"slack", "clobber", "abort"}

NoResult == [kind |-> "running", err |-> "none", buf |-> <<>>]

Returned(buf) == [kind |-> "ok", err |-> "none", buf |-> buf]

Raised(e) == [kind |-> "error", err |-> e, buf |-> <<>>]

Aborted == [kind |-> "abort", err |-> "none", buf |-> <<>>]

NoEntry == Entry(0, FALSE, FALSE, FALSE, FALSE, FALSE, FALSE, FALSE, 0, 0, 0, 0)

\* entry, meta, info_entry, info_meta are the references get_blocked takes
\* into the tables; index -1 stands for "not resolved"
Frame0(id, garbage, heap) ==
    [pc |-> "done", id |-> id, garbage |-> garbage, heap |-> heap,
     index |-> -1, info_key |-> -1, info_index |-> -1, blocked |-> FALSE,
     entry |-> NoEntry, meta |-> Meta0, info_entry |-> NoEntry, info_meta |-> Meta0,
     extents |-> <<>>, k |-> 0, left_size |-> 0, segment |-> <<>>,
     writes |-> <<>>, inflates |-> <<>>, reads |-> <<>>, clobber |-> <<>>,
     res |-> NoResult]

\* the id get_blocked hands to find_info for the segment at `index`
InfoKey(index, entry) == index

\* get_blocked(index) up to the first stream operation
get_blocked(f, index, count, entries, metas) ==
    LET key  == InfoKey(index, entries[index + 1])
        info == find_info(key, count, entries, metas)
        g    == [f EXCEPT !.index = index, !.blocked = TRUE, !.info_key = key,
                          !.entry = entries[index + 1], !.meta = metas[index + 1]]
    IN  IF info.err # "none"
        THEN [g EXCEPT !.res = Raised(info.err)]
        ELSE [g EXCEPT !.pc = "seek_info", !.info_index = info.index,
                       !.info_entry = entries[info.index + 1],
                       !.info_meta = metas[info.index + 1],
                       !.left_size = entries[index + 1].file_size]

\* get_nonblocked(index)
get_nonblocked(f, index) == [f EXCEPT !.index = index, !.res = Raised(NotImplementedError)]

\* get(id) up to the first stream operation
get(id, garbage, heap, count, entries, metas) ==
    LET f0 == Frame0(id, garbage, heap)
        r  == find(id, count, entries, metas)
    IN  IF r.err # "none" THEN [f0 EXCEPT !.res = Raised(r.err)]
        ELSE IF entries[r.index + 1].has_blocks
        THEN get_blocked(f0, r.index, count, entries, metas)
        ELSE get_nonblocked(f0, r.index)

\* the info buffer after the read: decrypt, refuse compression, parse the
\* digests and the extents
ParseInfo(f, raw) ==
    LET block_count == f.entry.block_count
        buf    == IF f.info_entry.is_encrypted
                  THEN pup_decrypt(raw, f.info_meta, f.garbage).buffer
                  ELSE raw
        skip   == IF f.info_entry.has_digests THEN SizeofPupDigest * block_count ELSE 0
        extents == IF f.info_entry.has_extents
                   THEN [i \in 1..block_count |->
                            ReadExtent(buf, skip + SizeofPupExtent * (i - 1))]
                   ELSE <<>>
    IN  IF f.info_entry.is_compressed
        THEN [f EXCEPT !.pc = "done", !.res = Raised(NotImplementedError)]
        ELSE IF extents = <<>>
        THEN [f EXCEPT !.pc = "done", !.res = Returned(<<>>)]
        ELSE [f EXCEPT !.pc = "seek_block", !.extents = extents, !.k = 1]

\* a - b on unsigned 32-bit values.  TLC's integers are 32-bit signed:
\* a difference that wraps (2^32 + a - b, a < b <= 15) is kept as the largest one
\* they hold, which like the wrapped value exceeds the length of every buffer.
SubU32(a, b) == IF a >= b THEN a - b ELSE 2147483647

\* one iteration of the extent loop after the block has been read
ProcessBlock(f, raw) ==
    LET size      == Len(raw)
        cur_zsize == SubU32(AlignDown(size), Overflow(size))
        cur_size  == Min(f.entry.block_size, f.left_size)
        block     == IF f.entry.is_encrypted THEN CryptoDecrypt(raw, f.meta) ELSE raw
        z         == uncompress(cur_size, block, cur_zsize)
        over      == ~f.entry.is_compressed /\ size > cur_size
        appended  == IF f.entry.is_compressed
                     THEN (IF z.rc = Z_OK THEN Pad(z.out, cur_size) ELSE Zeros(cur_size))
                     ELSE IF over THEN Slice(block, 0, cur_size)
                     ELSE Pad(block, cur_size)
        g == [f EXCEPT
                !.left_size = f.left_size - cur_size,
                !.segment = f.segment \o appended,
                !.writes = IF f.entry.is_compressed THEN f.writes
                           ELSE Append(f.writes, [cur_size |-> cur_size, written |-> size]),
                !.inflates = IF f.entry.is_compressed
                             THEN Append(f.inflates,
                                         [rc |-> z.rc, usize |-> Len(z.out),
                                          cur_size |-> cur_size])
                             ELSE f.inflates,
                !.clobber = IF over /\ f.heap = "clobber"
                            THEN f.clobber \o Slice(block, cur_size, size - cur_size)
                            ELSE f.clobber,
                !.k = f.k + 1]
    IN  IF over /\ f.heap = "abort"
        THEN [g EXCEPT !.pc = "done", !.res = Aborted]
        ELSE IF f.k = Len(f.extents)
        THEN [g EXCEPT !.pc = "done", !.res = Returned(g.segment)]
        ELSE [g EXCEPT !.pc = "seek_block"]

\* the offset the frame's next read needs
Wanted(f) ==
    IF f.pc \in {"seek_info", "read_info"}
    THEN f.info_entry.offset
    ELSE f.entry.offset + f.extents[f.k].offset

\* one stream operation of a frame at stream position p
Step(f, p) ==
    CASE f.pc = "seek_info" ->
             [f |-> [f EXCEPT !.pc = "read_info"],
              pos |-> SeekSet(p, f.info_entry.offset)]
      [] f.pc = "read_info" ->
             LET n == f.info_entry.file_size
                 g == [f EXCEPT !.reads = Append(f.reads, [at |-> p, want |-> Wanted(f)])]
             IN  [f |-> ParseInfo(g, StreamRead(p, n)), pos |-> p + n]
      [] f.pc = "seek_block" ->
             [f |-> [f EXCEPT !.pc = "read_block"],
              pos |-> SeekSet(p, f.entry.offset + f.extents[f.k].offset)]
      [] f.pc = "read_block" ->
             LET n == f.extents[f.k].size
                 g == [f EXCEPT !.reads = Append(f.reads, [at |-> p, want |-> Wanted(f)])]
             IN  [f |-> ProcessBlock(g, StreamRead(p, n)), pos |-> p + n]

RECURSIVE Run(_, _)
\* a frame run to its end without anything in between
Run(f, p) ==
    IF f.pc = "done" THEN [f |-> f, pos |-> p]
    ELSE LET s == Step(f, p) IN Run(s.f, s.pos)

\* bytes written past the output buffer land on the first entry of segEntries
Clobbered(entries, bytes) ==
    [entries EXCEPT ![1].offset = bytes[1]]

\* what is kept of a finished call
Record(f) == [f EXCEPT !.garbage = <<>>, !.heap = "-"]

-----------------------------------------------------------------------------
(* Spec: one parser is constructed on an archive, then get is called up to *)
(* MaxCalls times, one call after the other.                               *)

MaxCalls == 2

\* ids asked for: the two block-split segments, the segment without blocks,
\* the id only an info segment carries, an id no entry carries
GetIds == {0, 1, 7, 9, 5}

InitParser ==
    /\ file \in Archives
    /\ data = ArchiveBytes(file.segs, file.rows)
    /\ pos = 0
    /\ state = "new"
    /\ error = "none"
    /\ header = ZeroHeader
    /\ headerEx = [segment_count |-> 0]
    /\ segEntries = <<>>
    /\ segMetas = <<>>
    /\ built = <<>>
    /\ ioLog = <<>>
    /\ calls = <<>>
    /\ threads = <<>>
    /\ serial = TRUE

Init == InitParser /\ FindIdle /\ DecIdle

Construct ==
    /\ state = "new"
    /\ \E verify \in BOOLEAN :
         LET r == PupParser(file, verify)
         IN  /\ state' = r.state
             /\ error' = r.error
             /\ header' = r.header
             /\ headerEx' = r.headerEx
             /\ segEntries' = r.segEntries
             /\ segMetas' = r.segMetas
             /\ pos' = r.pos
             /\ ioLog' = r.ioLog
             /\ built' = <<r.header, r.headerEx, r.segEntries, r.segMetas>>
    /\ UNCHANGED <<file, data, calls, threads, serial, findVars, decVars>>

\* what a finished frame leaves behind in the parser
Finish(f) ==
    /\ calls' = Append(calls, Record(f))
    /\ state' = IF f.res.kind = "abort" THEN "crashed"
                ELSE IF f.clobber # <<>> THEN "corrupt"
                ELSE state
    /\ segEntries' = IF f.clobber # <<>> /\ f.res.kind # "abort"
                     THEN Clobbered(segEntries, f.clobber)
                     ELSE segEntries

Get ==
    /\ state = "opened"
    /\ Len(calls) < MaxCalls
    /\ \E id \in GetIds, garbage \in StackGarbage, heap \in HeapOutcomes :
         LET r == Run(get(id, garbage, heap, headerEx.segment_count, segEntries,
                             segMetas), pos)
         IN  /\ pos' = r.pos
             /\ Finish(r.f)
    /\ UNCHANGED <<file, data, error, header, headerEx, segMetas, built, ioLog,
                   threads, serial, findVars, decVars>>

Next == Construct \/ Get

Spec == Init /\ [][Next]_vars

-----------------------------------------------------------------------------
(* Claims about construction and sequential extraction (Spec)              *)

\* the archive's own description of the block-split segment with this id
SegOf(id) == file.segs[CHOOSE s \in 1..Len(file.segs) : file.segs[s].id = id]

IsSegId(id) == \E s \in 1..Len(file.segs) : file.segs[s].id = id

\* the bytes the extents of a raw segment describe: per block, in extent
\* order, the first cur_size bytes found at entry.offset + extent.offset
ExpectedRaw(seg, entry) ==
    Concat([k \in 1..Len(seg.extents) |->
               [i \in 1..CurSize(seg, k) |->
                   ByteAt(data, entry.offset + seg.extents[k].offset + i - 1)]])

\* C2: for the content segment at table index `index`, the info segment
\* get_blocked reads is the one find_info(entry.id) resolves: the info-flagged
\* entry whose id is the id of segEntries[index].
C2_InfoResolvedByEntryId ==
    \A n \in 1..Len(calls) :
        calls[n].blocked =>
            /\ calls[n].info_key = calls[n].entry.id
            /\ calls[n].info_index =
                   find_info(calls[n].entry.id, built[2].segment_count,
                             built[3], built[4]).index

\* C3: for a has-blocks segment that is unencrypted and uncompressed and
\* whose info segment carries block_count extents, get(id) returns the
\* concatenation, in extent order, of the first cur_size bytes of each block,
\* cur_size = min(block_size, remaining file size); its length is the sum of
\* the cur_size (36 for extents (0,16),(16,16),(16,20), block_size 16,
\* file_size 36).
C3_RawSegmentAssembled ==
    \A n \in 1..Len(calls) :
        LET c == calls[n]
        IN  (/\ c.blocked
             /\ ~c.entry.is_encrypted
             /\ ~c.entry.is_compressed
             /\ IsSegId(c.id)
             /\ SegOf(c.id).hasExtents
             /\ ~SegOf(c.id).infoComp
             /\ \A k \in 1..Len(SegOf(c.id).extents) :
                    SegOf(c.id).extents[k].size >= CurSize(SegOf(c.id), k))
            => /\ c.res = Returned(ExpectedRaw(SegOf(c.id), c.entry))
               /\ Len(c.res.buf) = c.entry.file_size

\* C4: in the uncompressed path every block writes exactly cur_size bytes
\* into the output buffer, whatever extent.size is.
C4_WritesExactlyCurSize ==
    \A n \in 1..Len(calls) :
        \A w \in 1..Len(calls[n].writes) :
            calls[n].writes[w].written = calls[n].writes[w].cur_size

FieldsBad(h) ==
    \/ h.magic # PUP_MAGIC
    \/ h.version # 0
    \/ h.mode # 1
    \/ h.endian # LITTLE
    \/ h.attr # 18

JigSet(h) == h.flags % 2 = 1

\* nothing after the fixed header was read or decrypted, no table entry exists
OnlyHeaderRead ==
    /\ ioLog = <<"seek", "read_header">>
    /\ pos = SizeofPupHeader
    /\ segEntries = <<>>
    /\ segMetas = <<>>
    /\ headerEx.segment_count = 0

\* C5: a header whose magic, version, mode, endian or attr is wrong makes
\* construction fail with FormatError; a header that passes those checks and
\* has the JIG bit set makes it fail with UnsupportedFeatureError; in both
\* cases before the header extension or the metadata block is read or
\* decrypted and before any table entry is added, and no opened parser exists
\* for such a header.
C5_InvalidHeaderFailsFast ==
    state # "new" =>
        /\ FieldsBad(file.header) =>
               state = "failed" /\ error = FormatError /\ OnlyHeaderRead
        /\ (~FieldsBad(file.header) /\ JigSet(file.header)) =>
               state = "failed" /\ error = UnsupportedFeatureError /\ OnlyHeaderRead
        /\ state \in {"opened", "corrupt", "crashed"} =>
               ~FieldsBad(file.header) /\ ~JigSet(file.header)

\* construction was refused for the JIG bit alone
C5_Witness ==
    /\ state = "failed"
    /\ error = UnsupportedFeatureError
    /\ JigSet(file.header)
    /\ OnlyHeaderRead

BadInflate(i) == i.rc # Z_OK \/ i.usize # i.cur_size

\* C6: for a compressed has-blocks segment, when inflate reports an error for
\* a block or yields a number of bytes other than cur_size, get fails with
\* DecompressError and returns no buffer; a buffer is returned only when
\* every block inflated to exactly cur_size bytes.
C6_InflateFailureRaises ==
    \A n \in 1..Len(calls) :
        LET c == calls[n]
            bad == \E i \in 1..Len(c.inflates) : BadInflate(c.inflates[i])
        IN  (c.blocked /\ c.entry.is_compressed) =>
                /\ bad => c.res = Raised(DecompressError)
                /\ c.res.kind = "ok" => ~bad

C8_GetRepeatable ==
    \A m, n \in 1..Len(calls) :
        /\ calls[m].id = calls[n].id => calls[m].res = calls[n].res
        /\ \A r \in 1..Len(calls[n].reads) :
               calls[n].reads[r].at = calls[n].reads[r].want

-----------------------------------------------------------------------------
(* SpecConc: two threads call get on one opened parser.  Nothing in the    *)
(* parser orders the calls, so the stream operations of the two frames     *)
(* interleave freely; with `serial` the caller lets a call start only when *)
(* no other call is running.                                               *)

Threads == {1, 2}

IdleFrame == [Frame0(0, <<>>, "-") EXCEPT !.pc = "idle"]

FinishedFrame == [Frame0(0, <<>>, "-") EXCEPT !.pc = "finished"]

\* raw, unencrypted segments of two or three blocks, ids equal to or swapped
\* against the table indices; no info segment is encrypted, so pup_decrypt is
\* never entered and prev_block is never read
ConcBodies ==
    {b \in Bodies : /\ b.rows = RowsFull
                     /\ ~b.segs[1].digests /\ ~b.segs[1].sgn
                     /\ ~b.segs[1].infoEnc /\ ~b.segs[1].infoComp
                     /\ ~b.segs[1].enc /\ b.segs[1].comp = "none"
                     /\ Len(b.segs[1].extents) >= 2}

\* ids asked for by the threads
ConcIds == {0, 1, 7}

InitConc ==
    /\ \E b \in ConcBodies : file = Archive(GoodHeader, b.segs, b.rows)
    /\ data = ArchiveBytes(file.segs, file.rows)
    /\ LET r == PupParser(file, FALSE)
       IN  /\ state = r.state
           /\ error = r.error
           /\ header = r.header
           /\ headerEx = r.headerEx
           /\ segEntries = r.segEntries
           /\ segMetas = r.segMetas
           /\ pos = r.pos
           /\ ioLog = r.ioLog
           /\ built = <<r.header, r.headerEx, r.segEntries, r.segMetas>>
    /\ calls = <<>>
    /\ threads = [t \in Threads |-> IdleFrame]
    /\ serial \in BOOLEAN
    /\ FindIdle
    /\ DecIdle

Running(t) == threads[t].pc \notin {"idle", "finished"}

\* thread t enters get(id)
Begin(t) ==
    /\ state = "opened"
    /\ threads[t].pc = "idle"
    /\ serial => \A u \in Threads : ~Running(u)
    /\ \E id \in ConcIds, heap \in HeapOutcomes :
         LET f == get(id, Zeros(16), heap, headerEx.segment_count, segEntries, segMetas)
         IN  IF f.pc = "done"
             THEN /\ Finish(f)
                  /\ threads' = [threads EXCEPT ![t] = FinishedFrame]
             ELSE /\ threads' = [threads EXCEPT ![t] = f]
                  /\ UNCHANGED <<calls, state, segEntries>>
    /\ UNCHANGED <<file, data, pos, error, header, headerEx, segMetas, built,
                   ioLog, serial, findVars, decVars>>

\* thread t performs the next stream operation of its call
StreamOp(t) ==
    /\ state = "opened"
    /\ Running(t)
    /\ LET s == Step(threads[t], pos)
       IN  /\ pos' = s.pos
           /\ IF s.f.pc = "done"
              THEN /\ Finish(s.f)
                   /\ threads' = [threads EXCEPT ![t] = FinishedFrame]
              ELSE /\ threads' = [threads EXCEPT ![t] = s.f]
                   /\ UNCHANGED <<calls, state, segEntries>>
    /\ UNCHANGED <<file, data, error, header, headerEx, segMetas, built, ioLog,
                   serial, findVars, decVars>>

NextConc == \E t \in Threads : Begin(t) \/ StreamOp(t)

SpecConc == InitConc /\ [][NextConc]_vars

\* the results get(id) can give when it runs alone on the parser as built
AloneResults(id) ==
    {Run(get(id, g, h, built[2].segment_count, built[3], built[4]), 0).f.res :
        g \in StackGarbage, h \in HeapOutcomes}

MisplacedRead(c) == \E r \in 1..Len(c.reads) : c.reads[r].at # c.reads[r].want

=============================================================================
